---- MODULE Spec2Model ----
(***************************************************************************)
(* A model of tape.c: a Turing machine whose tape is a text file of '0'    *)
(* and '1' characters, of which one BUFFER_SIZE window is held in memory.  *)
(*                                                                         *)
(* The tape file is the sequence of its bytes (tapef[i+1] is the byte at   *)
(* file offset i).  stdio is modelled as POSIX implements it: fseek to a   *)
(* negative offset fails, fseek past the end of the file succeeds, a read  *)
(* past the end gives EOF and a write past the end leaves a hole of NUL    *)
(* bytes.  Whether plain char is signed is implementation-defined and      *)
(* decides what "c == EOF" means in read_buf, so it is a parameter of the  *)
(* build (charSigned).                                                     *)
(***************************************************************************)
EXTENDS Integers, Sequences, FiniteSets, TLC

VARIABLES
    pc,            \* where main is: "load_instrucs", "load_lines", "load_tape", "run",
                   \* "halted", "failed", "undefined" (and "write_buf" in SpecFlush)
    instructions,  \* struct op (*instructions)[2]: instructions[s][b]
    max_states,    \* char max_states
    state,         \* char state
    position,      \* int position: index into buffer
    buf_pos,       \* int buf_pos: number of the loaded window
    buffer,        \* bool buffer[BUFFER_SIZE]; buffer[i+1] models buffer[i]
    tapef,         \* the bytes of the file behind FILE *tapef
    tapef_open,    \* FILE *tapef: TRUE while the stream is open
    charSigned,    \* the build: TRUE when plain char is signed
    instrf,        \* the characters of the instruction file not yet read
    loader,        \* load_instrucs: its loop counter l, and what parse_instruc left
    steps,         \* history: the number of iterations of run's loop so far
    file0,         \* history: the tape file as it was when it was opened
    ideal,         \* history: logical position -> the bit last written there
    ioLog,         \* history: the tape-file calls of the last step, in order
    shifts,        \* history: the number of write_buf calls with start < 0 so far
    lastOp,        \* history: the operation the last step executed
    instrf0,       \* history: the instruction file as it was when it was opened
    lefts          \* history: the leftward steps in a row up to now (k), and the
                   \* value of shifts before the first of them (base)

vars == << pc, instructions, max_states, state, position, buf_pos, buffer, tapef,
           tapef_open, charSigned, instrf, loader, steps, file0, ideal, ioLog, shifts,
           lastOp, instrf0, lefts >>

----------------------------------------------------------------------------
(* Program constants *)

BUFFER_SIZE == 128

Char0 == 48
Char1 == 49
EOF == -1
NUL == 0

(* Bounds of the model *)

\* windows -MaxBufPos .. MaxBufPos may be loaded
MaxBufPos == 4

\* run's loop is followed for at most MaxSteps iterations
MaxSteps == 400

----------------------------------------------------------------------------
(* stdio on the tape file *)

Max(a, b) == IF a > b THEN a ELSE b

\* fseek(tapef, start, SEEK_SET) != 0
FseekFails(start) == start < 0

\* fgetc at file offset off: the byte there, or EOF past the end
Fgetc(f, off) == IF off < Len(f) THEN f[off + 1] ELSE EOF

\* char c = fgetc(tapef): the int is narrowed to char
ToChar(signed, c) ==
    IF c = EOF THEN (IF signed THEN -1 ELSE 255)
    ELSE IF signed /\ c > 127 THEN c - 256 ELSE c

\* fputc of every byte of bytes in turn, the first at file offset off:
\* overwrite, extend, and fill a hole between the old end of file and off
\* with NUL bytes
Fputs(f, off, bytes) ==
    LET n == Len(f)
        m == Len(bytes)
        head == IF off <= n THEN SubSeq(f, 1, off)
                ELSE f \o [i \in 1..(off - n) |-> NUL]
        tail == IF off + m < n THEN SubSeq(f, off + m + 1, n) ELSE << >>
    IN  head \o bytes \o tail

\* (buffer[i] ? '1' : '0') for the whole window
BufChars(buf) == [i \in 1..BUFFER_SIZE |-> IF buf[i] = 1 THEN Char1 ELSE Char0]

Zeroes == [i \in 1..BUFFER_SIZE |-> 0]

----------------------------------------------------------------------------
(* read_buf *)

\* The index (0-based) of the first fgetc of the window at start whose char is
\* neither '0' nor '1', or BUFFER_SIZE when there is none
FirstOther(f, start, signed) ==
    LET other == {i \in 0..(BUFFER_SIZE - 1) :
                     ToChar(signed, Fgetc(f, start + i)) \notin {Char0, Char1}}
    IN  IF other = {} THEN BUFFER_SIZE
        ELSE CHOOSE i \in other : \A j \in other : i <= j

\* int read_buf(int start): the buffer afterwards and the value returned
read_buf(f, buf, start, signed) ==
    IF FseekFails(start)
    THEN [buffer |-> Zeroes, ret |-> 0]
    ELSE LET k == FirstOther(f, start, signed)
             c == ToChar(signed, Fgetc(f, start + k))
             bit(i) == IF f[start + i] = Char1 THEN 1 ELSE 0
         IN  IF k = BUFFER_SIZE
             THEN [buffer |-> [i \in 1..BUFFER_SIZE |-> bit(i)], ret |-> 0]
             ELSE IF c = EOF
             THEN [buffer |-> [i \in 1..BUFFER_SIZE |-> IF i <= k THEN bit(i) ELSE 0],
                   ret |-> 0]
             ELSE [buffer |-> [i \in 1..BUFFER_SIZE |-> IF i <= k THEN bit(i) ELSE buf[i]],
                   ret |-> 1]

----------------------------------------------------------------------------
(* write_buf *)

\* ShiftRight with the old content left where it was
ShiftRight_InPlace(f, buf) == Fputs(f, 0, BufChars(buf))

\* The file after the "start < 0" branch: write_buf(0) writes the window at
\* offset 0, then the old content is put back after it
ShiftRight(f, buf) == Fputs(Fputs(f, 0, BufChars(buf)), BUFFER_SIZE, f)

\* The final loop of write_buf at the stream's position off; ok is whether
\* fputc succeeds
PutWindow(f, buf, off, ok) ==
    IF ok THEN [file |-> Fputs(f, off, BufChars(buf)), ret |-> 0]
    ELSE [file |-> f, ret |-> 1]

\* int write_buf(int start): the file afterwards and the value returned
write_buf(f, buf, start, ok) ==
    IF FseekFails(start)
    THEN LET g == ShiftRight(f, buf)
         IN  PutWindow(g, buf, Len(g), ok)
    ELSE PutWindow(f, buf, start, ok)

----------------------------------------------------------------------------
(* Strings: a char is a string of one character; "NUL" is '\0', "DEL" is 127 *)

Digits == << "0", "1", "2", "3", "4", "5", "6", "7", "8", "9" >>

IsDigit(c) == \E d \in 1..10 : Digits[d] = c

DigitVal(c) == (CHOOSE d \in 1..10 : Digits[d] = c) - 1

\* isspace
IsSpace(c) == c \in {" ", "\n", "\t"}

\* The char at index i (from 0) of the memory mem, '\0' beyond what is modelled
At(mem, i) == IF i >= 0 /\ i < Len(mem) THEN mem[i + 1] ELSE "NUL"

\* strlen: the index of the first '\0'
Strlen(mem) ==
    IF \E i \in 1..Len(mem) : mem[i] = "NUL"
    THEN (CHOOSE i \in 1..Len(mem) : mem[i] = "NUL" /\ \A j \in 1..(i - 1) : mem[j] # "NUL") - 1
    ELSE Len(mem)

RECURSIVE DigitsFrom(_, _, _)
\* The value of the digits of mem from index i on, after the value acc
DigitsFrom(mem, i, acc) ==
    IF IsDigit(At(mem, i)) THEN DigitsFrom(mem, i + 1, acc * 10 + DigitVal(At(mem, i)))
    ELSE acc

RECURSIVE SkipSpace(_, _)
SkipSpace(mem, i) == IF IsSpace(At(mem, i)) THEN SkipSpace(mem, i + 1) ELSE i

\* atoi: white space, a sign, and digits up to the first char that is none
Atoi(mem) ==
    LET i == SkipSpace(mem, 0)
    IN  IF At(mem, i) = "-" THEN 0 - DigitsFrom(mem, i + 1, 0)
        ELSE IF At(mem, i) = "+" THEN DigitsFrom(mem, i + 1, 0)
        ELSE DigitsFrom(mem, i, 0)

\* (char) v
AsChar(signed, v) ==
    LET m == v % 256 IN IF signed /\ m > 127 THEN m - 256 ELSE m

\* fgets(s, n, fp) on the characters f left in the file: the string read (at
\* most n-1 chars, up to and with the first newline) and what is left; NULL
\* at the end of the file
Fgets(f, n) ==
    LET most == IF Len(f) < n - 1 THEN Len(f) ELSE n - 1
        nl == {i \in 1..most : f[i] = "\n"}
        k == IF nl = {} THEN most ELSE CHOOSE i \in nl : \A j \in nl : i <= j
    IN  IF f = << >> THEN [null |-> TRUE, str |-> << >>, rest |-> f]
        ELSE [null |-> FALSE, str |-> SubSeq(f, 1, k), rest |-> SubSeq(f, k + 1, Len(f))]

----------------------------------------------------------------------------
(* The transition table and the machine *)

\* struct op for a machine of n states; dir is TRUE for R
Ops(n) == [state : 0..(n - 1), val : {0, 1}, dir : BOOLEAN, stop : BOOLEAN]

NoOp == [state |-> 0, val |-> 0, dir |-> TRUE, stop |-> FALSE]

\* buf_pos*BUFFER_SIZE + position, the position printed in the log
LogicalPos == buf_pos * BUFFER_SIZE + position

\* curr_op = instructions[state][buffer[position]]
curr_op == instructions[state][buffer[position + 1]]

\* Written with the bit put one index further on
Written_Neighbour == [buffer EXCEPT ![((position + 1) % BUFFER_SIZE) + 1] = curr_op.val]

\* buffer[position] = curr_op.val
Written == [buffer EXCEPT ![position + 1] = curr_op.val]

\* Moved with the directions taken for each other
Moved_Reversed == position + (IF curr_op.dir THEN -1 ELSE 1)

\* position += curr_op.dir ? 1 : -1
Moved == position + (IF curr_op.dir THEN 1 ELSE -1)

\* position after the window to the right was chosen
PosAfterRight == 0

\* position after the window to the left was chosen
PosAfterLeft == 0

\* The tape as an ideal unbounded tape would hold it at logical position p:
\* the bit last written there, else the initial file's bit, else 0
IdealBit(p) ==
    IF p \in DOMAIN ideal THEN ideal[p]
    ELSE IF p >= 0 /\ p < Len(file0) /\ file0[p + 1] = Char1 THEN 1
    ELSE 0

NoLefts == [k |-> 0, base |-> 0]

WriteCall(start, w) == [call |-> "write_buf", start |-> start, ret |-> w.ret]
ReadCall(start, r) == [call |-> "read_buf", start |-> start, ret |-> r.ret]

\* What every iteration of run's loop does first (lines 352-355)
Execute ==
    /\ pc = "run"
    /\ steps < MaxSteps
    /\ state \in DOMAIN instructions
    /\ steps' = steps + 1
    /\ state' = curr_op.state
    /\ ideal' = (LogicalPos :> curr_op.val) @@ ideal
    /\ lastOp' = curr_op
    /\ lefts' = IF curr_op.dir THEN NoLefts
                ELSE [k |-> lefts.k + 1,
                      base |-> IF lefts.k = 0 THEN shifts ELSE lefts.base]
    /\ UNCHANGED << instructions, max_states, charSigned, instrf, loader, file0,
                    tapef_open, instrf0 >>

\* int load_tape(char *fname): open the tape and load the window at 0
load_tape ==
    /\ pc = "load_tape"
    /\ LET r == read_buf(tapef, buffer, 0, charSigned)
       IN  /\ buffer' = r.buffer
           /\ pc' = IF r.ret = 0 THEN "run" ELSE "failed"
           /\ ioLog' = << ReadCall(0, r) >>
    /\ tapef_open' = TRUE
    /\ UNCHANGED << instructions, max_states, state, position, buf_pos, tapef,
                    charSigned, instrf, loader, steps, file0, ideal, shifts, lastOp,
                    instrf0, lefts >>

\* StepInside that ends the run as a STOP operation does
StepInside_Halting ==
    /\ Execute
    /\ ~curr_op.stop
    /\ Moved \in 0..(BUFFER_SIZE - 1)
    /\ buffer' = Written
    /\ position' = Moved
    /\ ioLog' = << >>
    /\ pc' = "halted"
    /\ UNCHANGED << buf_pos, tapef, shifts >>

\* An iteration that stays inside the window
StepInside ==
    /\ Execute
    /\ ~curr_op.stop
    /\ Moved \in 0..(BUFFER_SIZE - 1)
    /\ buffer' = Written
    /\ position' = Moved
    /\ ioLog' = << >>
    /\ UNCHANGED << pc, buf_pos, tapef, shifts >>

\* The swap of lines 363-381: write the window back at its offset, then load
\* the window at the new offset
Swap(new_buf_pos, new_position, ok) ==
    LET old == buf_pos * BUFFER_SIZE
        new == new_buf_pos * BUFFER_SIZE
        w == write_buf(tapef, Written, old, ok)
        r == read_buf(w.file, Written, new, charSigned)
    IN  /\ tapef' = w.file
        /\ shifts' = shifts + (IF old < 0 THEN 1 ELSE 0)
        /\ IF w.ret # 0
           THEN /\ pc' = "failed"
                /\ buffer' = Written
                /\ position' = Moved
                /\ buf_pos' = buf_pos
                /\ ioLog' = << WriteCall(old, w) >>
           ELSE /\ pc' = IF r.ret = 0 THEN "run" ELSE "failed"
                /\ buffer' = r.buffer
                /\ position' = new_position
                /\ buf_pos' = new_buf_pos
                /\ ioLog' = << WriteCall(old, w), ReadCall(new, r) >>

\* StepRight that loads the window after the next
StepRight_Skip ==
    /\ Execute
    /\ ~curr_op.stop
    /\ Moved = BUFFER_SIZE
    /\ buf_pos < MaxBufPos - 1
    /\ \E ok \in BOOLEAN : Swap(buf_pos + 2, PosAfterRight, ok)

\* An iteration that leaves the window to the right (position == BUFFER_SIZE)
StepRight ==
    /\ Execute
    /\ ~curr_op.stop
    /\ Moved = BUFFER_SIZE
    /\ buf_pos < MaxBufPos
    /\ \E ok \in BOOLEAN : Swap(buf_pos + 1, PosAfterRight, ok)

\* An iteration that leaves the window to the left (position == -1)
StepLeft ==
    /\ Execute
    /\ ~curr_op.stop
    /\ Moved = -1
    /\ buf_pos > -MaxBufPos
    /\ \E ok \in BOOLEAN : Swap(buf_pos - 1, PosAfterLeft, ok)

\* StepStop without the write-back after the loop
StepStop_NoWriteBack ==
    /\ Execute
    /\ curr_op.stop
    /\ pc' = "halted"
    /\ ioLog' = << >>
    /\ buffer' = Written
    /\ position' = Moved
    /\ UNCHANGED << buf_pos, tapef, shifts >>

\* The iteration that executes a STOP operation: break, then the write-back
\* of lines 384-386
StepStop ==
    /\ Execute
    /\ curr_op.stop
    /\ \E ok \in BOOLEAN :
          LET w == write_buf(tapef, Written, buf_pos * BUFFER_SIZE, ok)
          IN  /\ tapef' = w.file
              /\ shifts' = shifts + (IF buf_pos < 0 THEN 1 ELSE 0)
              /\ pc' = IF w.ret = 0 THEN "halted" ELSE "failed"
              /\ ioLog' = << WriteCall(buf_pos * BUFFER_SIZE, w) >>
    /\ buffer' = Written
    /\ position' = Moved
    /\ UNCHANGED buf_pos

\* An iteration whose state is no row of the table: instructions[state] is
\* read outside the array, and nothing is said of what the program does next
StepOutside ==
    /\ pc = "run"
    /\ state \notin DOMAIN instructions
    /\ pc' = "undefined"
    /\ UNCHANGED << instructions, max_states, state, position, buf_pos, buffer, tapef,
                    tapef_open, charSigned, instrf, loader, steps, file0, ideal, ioLog,
                    shifts, lastOp, instrf0, lefts >>

----------------------------------------------------------------------------
(* parse_instruc *)

Op(s, v, d, h) == [state |-> s, val |-> v, dir |-> d, stop |-> h]

\* The table of the specification's scenario A
ScenarioA ==
    << [b \in {0, 1} |-> IF b = 0 THEN Op(0, 1, TRUE, FALSE) ELSE Op(1, 0, TRUE, FALSE)],
       [b \in {0, 1} |-> IF b = 0 THEN Op(1, 1, FALSE, FALSE) ELSE Op(1, 0, TRUE, TRUE)] >>

\* instructions is indexed from state 0
Table(rows) == [s \in 0..(Len(rows) - 1) |-> rows[s + 1]]

\* The index of the first ',' among the first three chars of mem, else 3
\* (for (i=0; i<3 && mem[i]!=','; i++))
CommaWithin3(mem) ==
    IF At(mem, 0) = "," THEN 0
    ELSE IF At(mem, 1) = "," THEN 1
    ELSE IF At(mem, 2) = "," THEN 2
    ELSE 3

\* What parse_instruc's "char state[3]" may hold when the function is entered,
\* with the byte that follows the array: what the call before left there, or
\* other bytes of the stack.  The array is never initialised.
Garbage(stale) ==
    {stale \o << "NUL" >>, << "NUL", "NUL", "NUL", "NUL" >>, << "1", "1", "1", "1" >>}

\* What may follow "char opchars[strlen(instruc) - i]" in memory: the array
\* gets no '\0' of its own
Tails ==
    {<< "NUL" >>, << "\n", "NUL" >>, << "S", "T", "O", "P", "NUL" >>,
     << "x", "x", "x", "x", "NUL" >>}

\* int parse_instruc(char *instruc): the value returned and, when it is 0, the
\* cell assigned, the operation stored and what is left in state[]
parse_instruc(instruc, garbage, tail, n, signed) ==
    LET fail == [ret |-> 1, instate |-> 0, indigit |-> 0, op |-> NoOp,
                 state |-> << "NUL", "NUL", "NUL" >>]
        i1 == CommaWithin3(instruc)
        state1 == [j \in 1..4 |-> IF j <= i1 THEN instruc[j] ELSE garbage[j]]
        instate == Atoi(state1)
        i2 == i1 + 1
        mem == SubSeq(instruc, i2 + 4, Len(instruc)) \o tail
        k == CommaWithin3(mem)
        state2 == [j \in 1..3 |-> IF j <= k THEN mem[j] ELSE "NUL"]
        opstate == AsChar(signed, Atoi(state2 \o << garbage[4] >>))
        i4 == k + 1
        i5 == i4 + 2
        i6 == i5 + 1
        stop == ~(At(mem, i6) \in {"\n", "DEL"})
    IN  IF Len(instruc) < 10 THEN fail
        ELSE IF At(instruc, i1) # "," THEN fail
        ELSE IF instate >= n THEN fail
        ELSE IF At(instruc, i2) \notin {"0", "1"} THEN fail
        ELSE IF At(instruc, i2 + 1) # "-" \/ At(instruc, i2 + 2) # ">" THEN fail
        ELSE IF opstate >= n THEN fail
        ELSE IF Strlen(mem) < i4 + 4 THEN fail
        ELSE IF ~(At(mem, i4) \in {"0", "1"} /\ At(mem, i4 + 1) = ",") THEN fail
        ELSE IF At(mem, i5) \notin {"L", "R"} THEN fail
        ELSE IF stop /\ Strlen(mem) < i6 + 3 THEN fail
        ELSE IF stop /\ << At(mem, i6), At(mem, i6 + 1), At(mem, i6 + 2), At(mem, i6 + 3) >>
                          # << "S", "T", "O", "P" >> THEN fail
        ELSE [ret |-> 0,
              instate |-> instate,
              indigit |-> IF At(instruc, i2) = "1" THEN 1 ELSE 0,
              op |-> Op(opstate, IF At(mem, i4) = "1" THEN 1 ELSE 0, At(mem, i5) = "R", stop),
              state |-> state2]

----------------------------------------------------------------------------
(* load_instrucs *)

\* load_instrucs' locals before the call: l; what the last parse_instruc left
\* in its state[] (stale); whether a line was stored outside the table
\* (outside); whether the warning of line 240 was printed (warned); and, as
\* history, the table the lines read so far describe by their own text (ref)
NotLoading ==
    [l |-> 0, stale |-> << "NUL", "NUL", "NUL" >>, outside |-> FALSE, warned |-> FALSE,
     ref |-> << >>]

\* The table after "Set all instructions to just go right" (lines 214-223)
DefaultTable(n) ==
    [s \in 0..(n - 1) |-> [d \in {0, 1} |-> Op(s, d, TRUE, FALSE)]]

StatesColon == << "S", "T", "A", "T", "E", "S", ":", " " >>

\* strncmp("STATES: ", first, 8) == 0
HeaderOK(first) == Len(first) >= 8 /\ SubSeq(first, 1, 8) = StatesColon

\* The state a line names before its first comma, as the line's text gives it
OwnKey(line) == Atoi(SubSeq(line, 1, CommaWithin3(line)))

\* load_instrucs up to its loop: the first line and the table of defaults
load_instrucs_first ==
    /\ pc = "load_instrucs"
    /\ LET g == Fgets(instrf, 12)
           first == g.str
           n == AsChar(charSigned, Atoi(SubSeq(first, 9, Len(first))))
       IN  /\ instrf' = g.rest
           /\ IF g.null \/ ~HeaderOK(first)
              THEN pc' = "failed" /\ UNCHANGED << instructions, max_states, loader >>
              ELSE /\ max_states' = n
                   /\ IF n <= 0
                      THEN pc' = "failed" /\ UNCHANGED << instructions, loader >>
                      ELSE /\ pc' = "load_lines"
                           /\ instructions' = DefaultTable(n)
                           /\ loader' = [loader EXCEPT !.ref = DefaultTable(n)]
    /\ UNCHANGED << state, position, buf_pos, buffer, tapef, charSigned,
                    steps, file0, ideal, ioLog, shifts, lastOp, tapef_open, instrf0,
                    lefts >>

\* One iteration of the loop of lines 227-236 that reads a line
load_instrucs_line ==
    /\ pc = "load_lines"
    /\ loader.l < max_states * 2
    /\ instrf # << >>
    /\ LET g == Fgets(instrf, 20)
       IN  /\ instrf' = g.rest
           /\ \E garbage \in Garbage(loader.stale), tail \in Tails :
                 LET r == parse_instruc(g.str, garbage, tail, max_states, charSigned)
                 IN  IF r.ret # 0
                     THEN pc' = "failed" /\ UNCHANGED << instructions, loader >>
                     ELSE /\ pc' = pc
                          /\ instructions' =
                                IF r.instate \in DOMAIN instructions
                                THEN [instructions EXCEPT ![r.instate][r.indigit] = r.op]
                                ELSE instructions
                          /\ loader' = [loader EXCEPT
                                          !.l = @ + 1,
                                          !.stale = r.state,
                                          !.outside = @ \/ r.instate \notin DOMAIN instructions,
                                          !.ref = IF OwnKey(g.str) \in DOMAIN @
                                                  THEN [@ EXCEPT ![OwnKey(g.str)][r.indigit] = r.op]
                                                  ELSE @]
    /\ UNCHANGED << max_states, state, position, buf_pos, buffer, tapef, charSigned,
                    steps, file0, ideal, ioLog, shifts, lastOp, tapef_open, instrf0,
                    lefts >>

\* The loop ends, at its bound or because fgets found the end of the file
\* (break), and load_instrucs returns 0 (lines 238-244)
load_instrucs_return ==
    /\ pc = "load_lines"
    /\ loader.l >= max_states * 2 \/ instrf = << >>
    /\ pc' = "load_tape"
    /\ loader' = [loader EXCEPT !.warned = instrf # << >>]
    /\ instrf' = IF instrf = << >> THEN instrf ELSE Tail(instrf)
    /\ UNCHANGED << instructions, max_states, state, position, buf_pos, buffer, tapef,
                    charSigned, steps, file0, ideal, ioLog, shifts, lastOp, tapef_open,
                    instrf0, lefts >>

----------------------------------------------------------------------------
(* The loads: instruction files *)

\* n in decimal, 0 <= n <= 999
Num(n) ==
    IF n < 10 THEN << Digits[n + 1] >>
    ELSE IF n < 100 THEN << Digits[(n \div 10) + 1], Digits[(n % 10) + 1] >>
    ELSE << Digits[(n \div 100) + 1], Digits[((n \div 10) % 10) + 1], Digits[(n % 10) + 1] >>

\* The line S,B->S2,B2,D[STOP] for cell (s, b) and operation op
InstrLine(s, b, op) ==
    Num(s) \o << ",", Digits[b + 1], "-", ">" >> \o Num(op.state)
    \o << ",", Digits[op.val + 1], ",", IF op.dir THEN "R" ELSE "L" >>
    \o (IF op.stop THEN << "S", "T", "O", "P" >> ELSE << >>) \o << "\n" >>

Header(n) == StatesColon \o Num(n) \o << "\n" >>

RECURSIVE LinesFromTo(_, _, _)
\* The lines a to b of the table t, its cells in order
LinesFromTo(t, a, b) ==
    IF a > b THEN << >>
    ELSE IF a = b
    THEN InstrLine((a - 1) \div 2, (a - 1) % 2, t[(a - 1) \div 2][(a - 1) % 2])
    ELSE LET m == (a + b) \div 2
         IN  LinesFromTo(t, a, m) \o LinesFromTo(t, m + 1, b)

\* The first k lines of the table t
Lines(t, k) == LinesFromTo(t, 1, k)

States(t) == Cardinality(DOMAIN t)

\* The machine of n states that goes through its states in turn, flips the bit
\* and moves right, and stops in its last state over a 1
Cycle(n) ==
    [s \in 0..(n - 1) |->
        [b \in {0, 1} |-> Op((s + 1) % n, 1 - b, TRUE, s = n - 1 /\ b = 1)]]

LoadTables == {Cycle(1), Table(ScenarioA), Cycle(4)}

\* The file of a table; the same cut short after k lines; with a line after
\* the last; and without the newline that ends it
FileOf(t) == Header(States(t)) \o Lines(t, 2 * States(t))

CutFiles ==
    UNION {{Header(States(t)) \o Lines(t, k) : k \in 0..(2 * States(t) - 1)} : t \in LoadTables}

LongFiles == {FileOf(t) \o InstrLine(0, 0, t[0][1]) : t \in LoadTables}

OpenEndedFiles == {SubSeq(FileOf(t), 1, Len(FileOf(t)) - 1) : t \in LoadTables}

\* Files whose first line is not "STATES: " and a count of 1 or more
HeaderlessFiles ==
    {<< >>,
     << "S", "T", "A", "T", "E", ":", " ", "3", "\n" >> \o Lines(Cycle(1), 2),
     StatesColon \o << "0", "\n" >> \o Lines(Cycle(1), 2),
     StatesColon \o << "-", "1", "\n" >> \o Lines(Cycle(1), 2)}

\* Twelve states, and an operation that enters the last of them
Jumper ==
    [DefaultTable(12) EXCEPT
        ![0] = [b \in {0, 1} |-> IF b = 0 THEN Op(11, 1, TRUE, FALSE)
                                 ELSE Op(3, 0, FALSE, FALSE)]]

\* Scenario A's lines in another order, the cell (1,1) assigned twice and the
\* cell (1,0) never
ShuffledFiles ==
    {Header(2) \o InstrLine(1, 1, Op(0, 0, FALSE, FALSE))
               \o InstrLine(0, 1, ScenarioA[1][1])
               \o InstrLine(1, 1, ScenarioA[2][1])
               \o InstrLine(0, 0, ScenarioA[1][0])}

\* Lines that name a state below 0: as the target and as the key
NegativeFiles ==
    {Header(1) \o << "0", ",", "0", "-", ">", "-", "1", ",", "0", ",", "R", "\n" >>
               \o InstrLine(0, 1, Op(0, 1, TRUE, TRUE)),
     Header(1) \o << "-", "1", ",", "0", "-", ">", "0", ",", "0", ",", "R", "\n" >>
               \o InstrLine(0, 1, Op(0, 1, TRUE, TRUE))}

\* Counts of three digits: a file of 100 states, and a first line "STATES: 300"
\* that nothing follows
BigFiles ==
    {FileOf(DefaultTable(100)), StatesColon \o << "3", "0", "0" >>}

\* The first line without its colon
ColonlessFiles ==
    {<< "S", "T", "A", "T", "E", "S", " ", "1", "2", "\n" >> \o Lines(Cycle(1), 2)}

InstrFiles ==
    {FileOf(t) : t \in LoadTables \cup {Jumper}} \cup CutFiles \cup LongFiles
    \cup OpenEndedFiles \cup HeaderlessFiles \cup ColonlessFiles \cup ShuffledFiles
    \cup NegativeFiles \cup BigFiles

----------------------------------------------------------------------------
(* The runs of the machine: the states after load_instrucs has returned 0 *)

\* A tape file of length len, every byte fill but the one at offset k
Tape(len, fill, k, c) == [i \in 1..len |-> IF i = k + 1 THEN c ELSE fill]

\* Tape files of '0' and '1' only: the empty file, "1", and files one byte
\* longer than a window
BitTapes ==
    {<< >>, << Char1 >>}
    \cup {Tape(BUFFER_SIZE + 1, fill, BUFFER_SIZE, c) : fill, c \in {Char0, Char1}}

\* Bytes that are neither '0' nor '1': '2' and 0xFF
OtherBytes == {50, 255}

\* Tape files holding one such byte, in the window at 0 or in the one after it
OtherTapes ==
    {Tape(BUFFER_SIZE + 1, Char0, k, c) : k \in {0, 3, BUFFER_SIZE}, c \in OtherBytes}

InitTapes == BitTapes \cup OtherTapes

Tables(n) == [0..(n - 1) -> [{0, 1} -> Ops(n)]]

\* One-state tables that never stop and always move right
Walkers == {t \in Tables(1) : \A b \in {0, 1} : t[0][b].dir /\ ~t[0][b].stop}

InitRuns ==
    (Tables(1) \X InitTapes \X {TRUE})
    \cup (Walkers \X InitTapes \X {FALSE})
    \cup ({Table(ScenarioA)} \X BitTapes \X {TRUE})

\* main has parsed its arguments and load_instrucs has returned 0: a table, a
\* tape file and a build, with the globals as they are defined (lines 51-54)
InitOf(runs) ==
    /\ pc = "load_tape"
    /\ \E run \in runs :
          /\ instructions = run[1]
          /\ tapef = run[2]
          /\ charSigned = run[3]
    /\ max_states = Cardinality(DOMAIN instructions)
    /\ state = 0
    /\ position = 0
    /\ buf_pos = 0
    /\ buffer = Zeroes
    /\ instrf = << >>
    /\ loader = NotLoading
    /\ steps = 0
    /\ file0 = tapef
    /\ ideal = << >>
    /\ ioLog = << >>
    /\ shifts = 0
    /\ lastOp = NoOp
    /\ tapef_open = FALSE
    /\ instrf0 = instrf
    /\ lefts = NoLefts

Init == InitOf(InitRuns)

Next ==
    \/ load_tape
    \/ StepInside
    \/ StepRight
    \/ StepLeft
    \/ StepStop

Spec == Init /\ [][Next]_vars

----------------------------------------------------------------------------
(* The loads of the instruction file *)

\* main has parsed its arguments and calls load_instrucs (line 424)
InitLoad ==
    /\ pc = "load_instrucs"
    /\ instrf \in InstrFiles
    /\ charSigned \in BOOLEAN
    /\ instructions = << >>
    /\ max_states = 0
    /\ state = 0
    /\ position = 0
    /\ buf_pos = 0
    /\ buffer = Zeroes
    /\ tapef = << >>
    /\ loader = NotLoading
    /\ steps = 0
    /\ file0 = << >>
    /\ ideal = << >>
    /\ ioLog = << >>
    /\ shifts = 0
    /\ lastOp = NoOp
    /\ tapef_open = FALSE
    /\ instrf0 = instrf
    /\ lefts = NoLefts

NextLoad ==
    \/ load_instrucs_first
    \/ load_instrucs_line
    \/ load_instrucs_return

SpecLoad == InitLoad /\ [][NextLoad]_vars

----------------------------------------------------------------------------
(* The whole program: main loads the instructions, loads the tape and runs *)

MainTapes == {<< >>, << Char1 >>}

InitMain ==
    /\ pc = "load_instrucs"
    /\ instrf \in InstrFiles
    /\ charSigned \in BOOLEAN
    /\ tapef \in MainTapes
    /\ instructions = << >>
    /\ max_states = 0
    /\ state = 0
    /\ position = 0
    /\ buf_pos = 0
    /\ buffer = Zeroes
    /\ loader = NotLoading
    /\ steps = 0
    /\ file0 = tapef
    /\ ideal = << >>
    /\ ioLog = << >>
    /\ shifts = 0
    /\ lastOp = NoOp
    /\ tapef_open = FALSE
    /\ instrf0 = instrf
    /\ lefts = NoLefts

NextMain ==
    \/ load_instrucs_first
    \/ load_instrucs_line
    \/ load_instrucs_return
    \/ load_tape
    \/ StepInside
    \/ StepRight
    \/ StepLeft
    \/ StepStop
    \/ StepOutside

SpecMain == InitMain /\ [][NextMain]_vars

----------------------------------------------------------------------------
(* write_buf called twice for the same window *)

Windows ==
    {Zeroes, [i \in 1..BUFFER_SIZE |-> 1], [i \in 1..BUFFER_SIZE |-> i % 2]}

\* A file, a window and a window number; steps counts the calls made.  The
\* file is not empty when the offset is negative: write_buf would declare an
\* array of no elements (char curr_f[0])
InitFlush ==
    /\ pc = "write_buf"
    /\ tapef \in InitTapes
    /\ buffer \in Windows
    /\ buf_pos \in (-MaxBufPos)..MaxBufPos
    /\ buf_pos < 0 => tapef # << >>
    /\ charSigned = TRUE
    /\ instructions = Table(ScenarioA)
    /\ max_states = 2
    /\ state = 0
    /\ position = 0
    /\ instrf = << >>
    /\ loader = NotLoading
    /\ steps = 0
    /\ file0 = tapef
    /\ ideal = << >>
    /\ ioLog = << >>
    /\ shifts = 0
    /\ lastOp = NoOp
    /\ tapef_open = TRUE
    /\ instrf0 = instrf
    /\ lefts = NoLefts

\* write_buf(buf_pos*BUFFER_SIZE) on the window as it is
WriteBack ==
    /\ pc = "write_buf"
    /\ steps < 2
    /\ LET w == write_buf(tapef, buffer, buf_pos * BUFFER_SIZE, TRUE)
       IN  /\ tapef' = w.file
           /\ ioLog' = << WriteCall(buf_pos * BUFFER_SIZE, w) >>
    /\ steps' = steps + 1
    /\ shifts' = shifts + (IF buf_pos < 0 THEN 1 ELSE 0)
    /\ UNCHANGED << pc, instructions, max_states, state, position, buf_pos, buffer,
                    charSigned, instrf, loader, file0, ideal, lastOp, tapef_open,
                    instrf0, lefts >>

SpecFlush == InitFlush /\ [][WriteBack]_vars

----------------------------------------------------------------------------
(* The runs of scenario A's table *)

\* Tapes of '0' of length 8 or more, and the same with one '1'
TapesA ==
    {Tape(len, Char0, k, c) : len \in {8, BUFFER_SIZE, BUFFER_SIZE + 1},
                               k \in {0, 1, 7}, c \in {Char0, Char1}}

InitA == InitOf({Table(ScenarioA)} \X TapesA \X BOOLEAN)

SpecA == InitA /\ [][Next]_vars /\ WF_vars(Next)

----------------------------------------------------------------------------
(* What holds of the runs, used below *)

\* The last step called write_buf first and read_buf, if at all, after it
WroteBack == ioLog # << >> /\ ioLog[1].call = "write_buf"

\* The last step loaded a window: read_buf is the last call it made
Loaded == ioLog # << >> /\ ioLog[Len(ioLog)].call = "read_buf"

\* A step of run's loop is being taken
Stepping == steps' = steps + 1

\* The file holds, within [start, start + BUFFER_SIZE), a byte that is neither
\* '0' nor '1'
HoldsOther(f, start) ==
    \E off \in start..(start + BUFFER_SIZE - 1) :
        off >= 0 /\ off < Len(f) /\ f[off + 1] \notin {Char0, Char1}

\* The bytes of f at [off, off + BUFFER_SIZE) are the window's bits
HoldsWindow(f, off, buf) ==
    /\ Len(f) >= off + BUFFER_SIZE
    /\ \A i \in 1..BUFFER_SIZE : f[off + i] = (IF buf[i] = 1 THEN Char1 ELSE Char0)

\* The first line of an instruction file, without its newline
FirstLine(file) ==
    LET nl == {i \in 1..Len(file) : file[i] = "\n"}
    IN  IF nl = {} THEN file
        ELSE SubSeq(file, 1, (CHOOSE i \in nl : \A j \in nl : i <= j) - 1)

\* The count an instruction file declares after "STATES: "
DeclaredN(file) == Atoi(SubSeq(FirstLine(file), 9, Len(FirstLine(file))))

\* The file's first line does not begin "STATES: ", or declares no count above 0
BadHeader(file) ==
    \/ Len(FirstLine(file)) < 8
    \/ SubSeq(FirstLine(file), 1, 8) # StatesColon
    \/ DeclaredN(file) <= 0

\* Files of a first line "STATES: N" and N*2 lines, one for each cell
WellFormedFiles == {FileOf(t) : t \in LoadTables \cup {Jumper, DefaultTable(100)}}

\* run indexes buffer and instructions inside their bounds, and no window at
\* or right of the origin is written back past the end of the file
RunOK ==
    pc = "run" =>
        /\ position \in 0..(BUFFER_SIZE - 1)
        /\ state \in DOMAIN instructions
        /\ buf_pos >= 0 => buf_pos * BUFFER_SIZE <= Len(tapef)
        /\ buf_pos < 0 => Len(tapef) > 0

----------------------------------------------------------------------------
(* The claims *)

\* C1: whenever the machine reads the bit at its logical position, it gets
\* the bit last written at that position or, if none was, the initial tape's
\* bit there (0 outside the initial file).
C1_Coherent ==
    pc = "run" => buffer[position + 1] = IdealBit(LogicalPos)

\* C2: a logical position outside the initial file's range that was never
\* written reads as 0.
C2_UnwrittenReadsZero ==
    (/\ pc = "run"
     /\ LogicalPos \notin DOMAIN ideal
     /\ (LogicalPos < 0 \/ LogicalPos >= Len(file0)))
    => buffer[position + 1] = 0

\* C3: every step changes the logical position by +1 when the executed
\* operation moves Right and by -1 when it moves Left.
C3_MovesByOne ==
    [][Stepping => LogicalPos' = LogicalPos + (IF curr_op.dir THEN 1 ELSE -1)]_vars

\* C4: the first write-back of a window with a negative base offset makes the
\* tape file exactly BUFFER_SIZE bytes longer.
C4_GrowsByOneWindow ==
    [][(Stepping /\ WroteBack' /\ ioLog'[1].start < 0 /\ ioLog'[1].ret = 0 /\ shifts = 0)
          => Len(tapef') = Len(tapef) + BUFFER_SIZE]_vars

\* C5: after a write-back of a window with a negative base offset the file
\* holds the window's bits at [0, BUFFER_SIZE) and every byte it held before,
\* unchanged, BUFFER_SIZE further on.
C5_ShiftKeepsContent ==
    [][(Stepping /\ WroteBack' /\ ioLog'[1].start < 0)
          => /\ HoldsWindow(tapef', 0, Written)
             /\ Len(tapef') >= Len(tapef) + BUFFER_SIZE
             /\ \A i \in 1..Len(tapef) : tapef'[i + BUFFER_SIZE] = tapef[i]]_vars

\* C5, its case: a window with a negative base offset was written back over a
\* file that held both '0' and '1'
C5_Witness ==
    /\ WroteBack
    /\ ioLog[1].start < 0
    /\ ioLog[1].ret = 0
    /\ \E i, j \in (BUFFER_SIZE + 1)..(Len(tapef) - BUFFER_SIZE) : tapef[i] # tapef[j]

\* C6: when load_instrucs returns 0, it has read all max_states*2
\* instruction lines: a file that ends before them makes it fail.
C6_TruncatedFails ==
    pc = "load_tape" => loader.l = max_states * 2

\* C7: a window load fails if and only if the file holds, within the window's
\* range, a byte that is neither '0' nor '1'.
C7_FailsIffOtherByte ==
    Loaded =>
        LET rd == ioLog[Len(ioLog)]
        IN  rd.ret = 1 <=> HoldsOther(tapef, rd.start)

\* C8, its case: scenario A's table on a tape of '0' only, 8 bytes or more
ScenarioAZeroes ==
    /\ instructions = Table(ScenarioA)
    /\ Len(file0) >= 8
    /\ \A i \in 1..Len(file0) : file0[i] = Char0

\* C8 as claimed: scenario A's run on a tape of '0' executes the halting
\* operation in the end.
C8_Halts == ScenarioAZeroes => <>(pc = "halted")

\* C8 as amended: scenario A's run on a tape of '0' never executes the
\* halting operation: every step finds the machine in state 0 over a 0 at
\* logical position = the number of steps taken, so it executes 0,0->0,1,R and
\* state 1, whose cell holds STOP, is never entered.
C8_NeverHalts ==
    ScenarioAZeroes =>
        /\ pc # "halted"
        /\ state = 0
        /\ pc = "run" => (buffer[position + 1] = 0 /\ LogicalPos = steps)
        /\ steps > 0 => lastOp = Op(0, 1, TRUE, FALSE)
        /\ \A p \in 0..(steps - 1) : p \in DOMAIN ideal /\ ideal[p] = 1

\* C8, its case: the run has gone through the 8 bytes of the file and into
\* the window after the first
C8_Witness ==
    ScenarioAZeroes /\ Len(file0) = 8 /\ pc = "run" /\ buf_pos = 1 /\ position > 0

\* C9 as claimed: however the run ends, the last tape-file call is a
\* write-back of the loaded window, after which the file holds its bits.
C9_AlwaysWrittenBack ==
    (pc \in {"halted", "failed"} /\ steps > 0)
    => /\ ioLog[Len(ioLog)].call = "write_buf"
       /\ ioLog[Len(ioLog)].ret = 0
             => HoldsWindow(tapef, Max(buf_pos * BUFFER_SIZE, 0), buffer)

\* C9 as amended: a run that ends with a STOP operation ends with a write-back
\* of the loaded window at its offset, after which the file holds the window's
\* bits from offset max(offset, 0); a run that ends in a window swap ends with
\* the call that failed, and nothing is written after it.
C9_WrittenBackOnStop ==
    /\ pc = "halted"
          => /\ ioLog = << [call |-> "write_buf", start |-> buf_pos * BUFFER_SIZE, ret |-> 0] >>
             /\ HoldsWindow(tapef, Max(buf_pos * BUFFER_SIZE, 0), buffer)
    /\ (pc = "failed" /\ steps > 0)
          => /\ ioLog[Len(ioLog)].ret = 1
             /\ \A i \in 1..(Len(ioLog) - 1) : ioLog[i].ret = 0

\* C9, its case: a run stopped by a STOP operation in a window left of the
\* origin, with a 1 in the window
C9_Witness == pc = "halted" /\ buf_pos < 0 /\ \E i \in 1..BUFFER_SIZE : buffer[i] = 1

\* C10: writing the same window back twice at the same offset leaves the
\* file as writing it back once left it.
C10_Idempotent ==
    [][(pc = "write_buf" /\ steps = 1 /\ steps' = 2) => tapef' = tapef]_vars

\* C11: after a successful load the table holds, in every cell, the operation
\* of the last line whose own key is that cell, whatever the lines before it
\* held, and the default operation where no line has that key; every cell of
\* the max_states rows is defined.
C11_LastLineWins ==
    (pc = "load_tape" /\ ~BadHeader(instrf0))
    => /\ DOMAIN instructions = 0..(max_states - 1)
       /\ instructions = loader.ref

\* C12: a first line that does not begin "STATES: ", or whose count is not
\* above 0, makes load_instrucs fail before the table is allocated; no step is
\* executed and the tape file is neither opened nor changed.
C12_BadHeaderFails ==
    BadHeader(instrf0)
    => /\ pc \in {"load_instrucs", "failed"}
       /\ instructions = << >>
       /\ steps = 0
       /\ ~tapef_open
       /\ tapef = file0
       /\ ioLog = << >>

\* C14: after a successful load every next state stored in the table, and
\* every row a line was stored in, is within 0..max_states-1; the state that
\* run looks up is within 0..max_states-1.
C14_StatesInRange ==
    /\ pc \in {"load_tape", "run", "halted", "undefined"}
          => /\ ~loader.outside
             /\ \A s \in DOMAIN instructions : \A b \in {0, 1} :
                    instructions[s][b].state \in 0..(max_states - 1)
    /\ pc = "run" => state \in 0..(max_states - 1)

\* C20: a file of a first line "STATES: N", 1 <= N <= 127, and N*2 valid
\* lines is loaded; and a load that succeeds leaves max_states = N, the count
\* the first line declares.
C20_LoadsDeclaredCount ==
    /\ instrf0 \in WellFormedFiles => pc # "failed"
    /\ pc = "load_tape" => max_states = DeclaredN(instrf0)

\* C13: when the program ends after the tape file was opened, by a halt, by
\* a tape that cannot be loaded or by a failed write-back or load, the tape
\* file's stream has been closed.
C13_TapeClosed ==
    pc \in {"halted", "failed"} => ~tapef_open

\* C15: where run indexes the window, to read the bit, to write it, and to
\* report the bit at the final position after a halt, position is within
\* 0..BUFFER_SIZE-1.
C15_IndexInWindow ==
    pc \in {"run", "halted"} => position \in 0..(BUFFER_SIZE - 1)

\* The least integer not below k / n
CeilDiv(k, n) == (k + n - 1) \div n

\* C16: k leftward steps in a row shift the file at most
\* ceil(k / BUFFER_SIZE) + 1 times.
C16_ShiftsAreRare ==
    lefts.k > 0 => shifts - lefts.base <= CeilDiv(lefts.k, BUFFER_SIZE) + 1

\* C17: run ends normally only by a step whose operation has stop set; that
\* step writes the operation's bit, enters its state and moves, then writes
\* the window back at its offset, and loads no other window even when the
\* move left the window; a step whose operation has no stop does not end the
\* run normally.
C17_HaltsOnStopOnly ==
    [][/\ (pc # "halted" /\ pc' = "halted")
           => /\ pc = "run"
              /\ Stepping
              /\ curr_op.stop
              /\ state' = curr_op.state
              /\ buffer' = Written
              /\ position' = Moved
              /\ buf_pos' = buf_pos
              /\ ioLog' = << [call |-> "write_buf", start |-> buf_pos * BUFFER_SIZE,
                              ret |-> 0] >>
              /\ HoldsWindow(tapef', Max(buf_pos * BUFFER_SIZE, 0), buffer')
       /\ (Stepping /\ ~curr_op.stop) => pc' # "halted"]_vars

\* C17, its case: a STOP operation that moved Left at index 0 has ended a run
\* of more than one step
C17_Witness ==
    pc = "halted" /\ position = -1 /\ steps > 1 /\ lastOp.stop /\ ~lastOp.dir

\* C18: a step that neither leaves the window nor executes a STOP operation
\* leaves the tape file and buf_pos as they were, calls neither write_buf nor
\* read_buf, and changes no bit of the window but the one at the position
\* held before the step, which gets the operation's bit.
C18_StepInsideFrame ==
    [][(Stepping /\ ~curr_op.stop /\ Moved \in 0..(BUFFER_SIZE - 1))
          => /\ tapef' = tapef
             /\ buf_pos' = buf_pos
             /\ ioLog' = << >>
             /\ buffer'[position + 1] = curr_op.val
             /\ \A i \in 1..BUFFER_SIZE : i # position + 1 => buffer'[i] = buffer[i]]_vars

\* C18, its case: after a step inside window 0 the window holds a 1 where the
\* file does not
C18_Witness ==
    /\ pc = "run"
    /\ steps > 0
    /\ ioLog = << >>
    /\ buf_pos = 0
    /\ \E i \in 1..BUFFER_SIZE : buffer[i] = 1 /\ Fgetc(tapef, i - 1) # Char1

\* C19: the window's offset is a multiple of BUFFER_SIZE; buf_pos changes only
\* in a step that leaves the window, by +1 to the right and by -1 to the
\* left; that step first writes the old window back at the old offset and
\* then loads the window at the new one.
C19_SwapsByOneWindow ==
    [][buf_pos' # buf_pos
          => /\ Stepping
             /\ ~curr_op.stop
             /\ \/ Moved = BUFFER_SIZE /\ curr_op.dir /\ buf_pos' = buf_pos + 1
                \/ Moved = -1 /\ ~curr_op.dir /\ buf_pos' = buf_pos - 1
             /\ Len(ioLog') = 2
             /\ ioLog'[1] = [call |-> "write_buf", start |-> buf_pos * BUFFER_SIZE, ret |-> 0]
             /\ ioLog'[2].call = "read_buf"
             /\ ioLog'[2].start = buf_pos' * BUFFER_SIZE
             /\ ioLog'[2].start % BUFFER_SIZE = 0
             /\ HoldsWindow(tapef', Max(buf_pos * BUFFER_SIZE, 0), Written)]_vars

\* C19, its case: a window left of the origin has been loaded after the
\* write-back of the window right of it
C19_Witness ==
    /\ pc = "run"
    /\ buf_pos < 0
    /\ Len(ioLog) = 2
    /\ ioLog[1].start = (buf_pos + 1) * BUFFER_SIZE
    /\ ioLog[2].start = buf_pos * BUFFER_SIZE

====
